---- MODULE Spec2Model ----
(***************************************************************************)
(* Weekly shift scheduler of src/EmployeeShifts.py: the four passes of     *)
(* schedule_with_preferences (preference pass, ensure_minimum_staffing,    *)
(* resolve_shortages_via_next_day, fill_remaining_with_available) over one *)
(* mutable schedule and one employee list.                                 *)
(***************************************************************************)
EXTENDS Integers, Sequences, FiniteSets, TLC

\* ------------------------------------------------------------ constants
\* range(7): the day indexes of DAYS
NumDays == 7
\* the weekly cap of can_assign
MaxDaysPerWeek == 5
\* min_required passed by schedule_with_preferences
MinRequired == 2
SHIFTS == <<"morning", "afternoon", "evening">>

Days == 0 .. (NumDays - 1)
ShiftSet == {SHIFTS[i] : i \in 1 .. Len(SHIFTS)}
\* the absent key of the dict assigned_shifts
NoShift == "none"

\* ------------------------------------------------------------ bounds
\* number of employees of the input list
NumEmp == 2
\* largest max_per_shift entered
MaxCap == 2
\* longest ranked preference list entered
MaxPrefLen == 2
\* number of employees when a staffing pass is called on its own
NumStaff == 3
\* longest shortage list handed to the resolver called on its own
MaxRecords == 2
\* largest missing count in such a list
MaxNeed == 2

VARIABLES
    employees,          \* the input list: employee objects in input order
    name,               \* Employee.name
    preferences,        \* Employee.preferences[day]
    max_per_shift,
    days_assigned,      \* Employee.days_assigned
    assigned_shifts,    \* Employee.assigned_shifts (NoShift: key absent)
    schedule,           \* schedule[day][shift]: sequence of names
    emp_order,          \* the shuffled copy of the employee list
    pc,                 \* the pass that is running
    day,                \* the day of the running loop
    idx,                \* position of the inner loop (employee, shift or record)
    need,               \* need of the cell or record being worked on
    chosen,             \* employees selected for the cell or record
    cidx,               \* next element of chosen to be assigned
    shortages,          \* list built by ensure_minimum_staffing
    updated_shortages,  \* list built by resolve_shortages_via_next_day
    call,               \* the latest call of assign_employee_to_shift, as seen at call time
    rec                 \* the cell or record the staffing passes took up last, as seen then

vars == <<employees, name, preferences, max_per_shift, days_assigned,
          assigned_shifts, schedule, emp_order, pc, day, idx, need, chosen,
          cidx, shortages, updated_shortages, call, rec>>

inputs == <<employees, name, preferences, max_per_shift>>

\* ------------------------------------------------------------ helpers
Range(f) == {f[i] : i \in DOMAIN f}

Permutations1(seq) ==
    {p \in [1 .. Len(seq) -> Range(seq)] :
        \A i, j \in 1 .. Len(seq) : i # j => p[i] # p[j]}

\* sequences over S of length 0 .. n
SeqUpTo(S, n) == UNION {[1 .. k -> S] : k \in 0 .. n}

InSeq(x, seq) == \E i \in 1 .. Len(seq) : seq[i] = x

\* list.sort(key=...): stable, ascending
RECURSIVE InsertByKey(_, _, _)
InsertByKey(x, sorted, key) ==
    IF sorted = <<>> THEN <<x>>
    ELSE IF key[sorted[Len(sorted)]] <= key[x] THEN Append(sorted, x)
    ELSE Append(InsertByKey(x, SubSeq(sorted, 1, Len(sorted) - 1), key),
                sorted[Len(sorted)])

RECURSIVE SortByKey(_, _)
SortByKey(seq, key) ==
    IF seq = <<>> THEN <<>>
    ELSE InsertByKey(seq[Len(seq)], SortByKey(SubSeq(seq, 1, Len(seq) - 1), key), key)

initialize_schedule == [d \in Days |-> [s \in ShiftSet |-> <<>>]]

\* ------------------------------------------------------------ inputs
\* the employee objects of an input list of n employees, in input order
Employees(n) == [i \in 1 .. n |-> i]

DistinctNames(n) == [e \in 1 .. n |-> e]

\* names as typed in: pairwise distinct, or the last one repeating the first
NameChoices(n) ==
    {DistinctNames(n), [e \in 1 .. n |-> IF e = n THEN 1 ELSE e]}

\* a ranked list as ask_user_input keeps it: tokens of SHIFTS, in input order
PrefLists == SeqUpTo(ShiftSet, MaxPrefLen)

\* the weekly preferences of one employee: the same ranked list every day
PrefWeeks == {[d \in Days |-> l] : l \in PrefLists}

NoCall == [by |-> "none", emp |-> 0, day |-> 0, shift |-> NoShift,
           assigned_before |-> NoShift, days_before |-> 0,
           occupancy |-> [s \in ShiftSet |-> 0]]

NoRec == [by |-> "none", day |-> 0, shift |-> NoShift, need |-> 0,
          occupancy |-> 0, eligible |-> {}, load |-> <<>>, listed |-> 0]

\* ------------------------------------------------------------ the program
\* variant of has_capacity: the test off by one
has_capacity_le(d, shift) == Len(schedule[d][shift]) <= max_per_shift

has_capacity(d, shift) == Len(schedule[d][shift]) < max_per_shift

\* variants of can_assign: the cap test off by one, either way, and no cap test
can_assign_gt(emp, d) ==
    IF assigned_shifts[emp][d] # NoShift THEN FALSE
    ELSE IF days_assigned[emp] > MaxDaysPerWeek THEN FALSE
    ELSE TRUE

can_assign_early(emp, d) ==
    IF assigned_shifts[emp][d] # NoShift THEN FALSE
    ELSE IF days_assigned[emp] >= MaxDaysPerWeek - 1 THEN FALSE
    ELSE TRUE

can_assign_nocap(emp, d) ==
    IF assigned_shifts[emp][d] # NoShift THEN FALSE
    ELSE TRUE

can_assign(emp, d) ==
    IF assigned_shifts[emp][d] # NoShift THEN FALSE
    ELSE IF days_assigned[emp] >= MaxDaysPerWeek THEN FALSE
    ELSE TRUE

\* variant of assign_employee_to_shift: the shift is not entered in
\* emp.assigned_shifts
assign_unrecorded(emp, d, shift, by) ==
    /\ schedule' = [schedule EXCEPT ![d][shift] = Append(@, name[emp])]
    /\ days_assigned' = [days_assigned EXCEPT ![emp] = @ + 1]
    /\ call' = [by |-> by, emp |-> emp, day |-> d, shift |-> shift,
                assigned_before |-> assigned_shifts[emp][d],
                days_before |-> days_assigned[emp],
                occupancy |-> [s \in ShiftSet |-> Len(schedule[d][s])]]
    /\ UNCHANGED assigned_shifts

\* variant of assign_employee_to_shift: the employee is also taken out of the
\* cell of the same shift on the last day of the week
assign_from_last_day(emp, d, shift, by) ==
    LET nxt == IF d = NumDays - 1 THEN 0 ELSE NumDays - 1
    IN  /\ schedule' = [schedule EXCEPT
                           ![d][shift] = Append(@, name[emp]),
                           ![nxt][shift] = SelectSeq(@, LAMBDA n : n # name[emp])]
        /\ assigned_shifts' = [assigned_shifts EXCEPT
                                  ![emp][d] = shift,
                                  ![emp][nxt] = IF @ = shift THEN NoShift ELSE @]
        /\ days_assigned' = [days_assigned EXCEPT ![emp] =
                                 IF assigned_shifts[emp][nxt] = shift THEN @ ELSE @ + 1]
        /\ call' = [by |-> by, emp |-> emp, day |-> d, shift |-> shift,
                    assigned_before |-> assigned_shifts[emp][d],
                    days_before |-> days_assigned[emp],
                    occupancy |-> [s \in ShiftSet |-> Len(schedule[d][s])]]

\* variant of assign_employee_to_shift: the cell is overwritten, not appended to
assign_overwrite(emp, d, shift, by) ==
    /\ schedule' = [schedule EXCEPT ![d][shift] = <<name[emp]>>]
    /\ assigned_shifts' = [assigned_shifts EXCEPT ![emp][d] = shift]
    /\ days_assigned' = [days_assigned EXCEPT ![emp] = @ + 1]
    /\ call' = [by |-> by, emp |-> emp, day |-> d, shift |-> shift,
                assigned_before |-> assigned_shifts[emp][d],
                days_before |-> days_assigned[emp],
                occupancy |-> [s \in ShiftSet |-> Len(schedule[d][s])]]

assign_employee_to_shift(emp, d, shift, by) ==
    /\ schedule' = [schedule EXCEPT ![d][shift] = Append(@, name[emp])]
    /\ assigned_shifts' = [assigned_shifts EXCEPT ![emp][d] = shift]
    /\ days_assigned' = [days_assigned EXCEPT ![emp] = @ + 1]
    /\ call' = [by |-> by, emp |-> emp, day |-> d, shift |-> shift,
                assigned_before |-> assigned_shifts[emp][d],
                days_before |-> days_assigned[emp],
                occupancy |-> [s \in ShiftSet |-> Len(schedule[d][s])]]

no_assignment == UNCHANGED <<schedule, assigned_shifts, days_assigned, call>>

\* variant of first_with_capacity: the list is walked from its end
RECURSIVE last_with_capacity(_, _)
last_with_capacity(shifts, d) ==
    IF shifts = <<>> THEN NoShift
    ELSE IF has_capacity(d, shifts[Len(shifts)]) THEN shifts[Len(shifts)]
    ELSE last_with_capacity(SubSeq(shifts, 1, Len(shifts) - 1), d)

\* for shift in shifts: if len(schedule[day][shift]) < max_per_shift: ... break
RECURSIVE first_with_capacity(_, _)
first_with_capacity(shifts, d) ==
    IF shifts = <<>> THEN NoShift
    ELSE IF has_capacity(d, Head(shifts)) THEN Head(shifts)
    ELSE first_with_capacity(Tail(shifts), d)

\* variant of not_preferred: no other shift is tried
not_preferred_none(prefs) == <<>>

\* variant of not_preferred: the other shifts are walked from evening to morning
not_preferred_rev(prefs) ==
    SelectSeq([i \in 1 .. Len(SHIFTS) |-> SHIFTS[Len(SHIFTS) + 1 - i]],
              LAMBDA s : ~InSeq(s, prefs))

\* for shift in SHIFTS: if shift in prefs: continue
not_preferred(prefs) == SelectSeq(SHIFTS, LAMBDA s : ~InSeq(s, prefs))

\* variant of preferred_or_other: only the ranked list is tried
preferred_only(emp, d) == first_with_capacity(preferences[emp][d], d)

\* the shift the preference pass gives an eligible employee (NoShift: none)
preferred_or_other(emp, d) ==
    LET prefs == preferences[emp][d]
        first == first_with_capacity(prefs, d)
    IN  IF first # NoShift THEN first
        ELSE first_with_capacity(not_preferred(prefs), d)

\* the state when schedule_with_preferences has copied the employee list
Start(n) ==
    /\ employees = Employees(n)
    /\ days_assigned = [e \in 1 .. n |-> 0]
    /\ assigned_shifts = [e \in 1 .. n |-> [d \in Days |-> NoShift]]
    /\ schedule = initialize_schedule
    /\ emp_order = employees
    /\ pc = "shuffle"
    /\ day = 0
    /\ idx = 1
    /\ need = 0
    /\ chosen = <<>>
    /\ cidx = 1
    /\ shortages = <<>>
    /\ updated_shortages = <<>>
    /\ call = NoCall
    /\ rec = NoRec

Init ==
    /\ name \in NameChoices(NumEmp)
    /\ preferences \in [1 .. NumEmp -> PrefWeeks]
    /\ max_per_shift \in 0 .. MaxCap
    /\ Start(NumEmp)

\* random.shuffle(emp_order), at the head of each day of the first pass
shuffle_day ==
    /\ pc = "shuffle"
    /\ emp_order' \in Permutations1(emp_order)
    /\ pc' = "prefer"
    /\ idx' = 1
    /\ UNCHANGED <<inputs, days_assigned, assigned_shifts, schedule, day, need,
                   chosen, cidx, shortages, updated_shortages, call, rec>>

\* variant of prefer_employee: the loop over the ranked list does not break, and
\* the employee is put into every ranked shift that has capacity
prefer_employee_nobreak(emp, d) ==
    LET prefs == preferences[emp][d]
        hits == {s \in Range(prefs) : has_capacity(d, s)}
        other == first_with_capacity(not_preferred(prefs), d)
    IN  IF ~can_assign(emp, d) THEN no_assignment
        ELSE IF hits # {}
        THEN /\ schedule' = [schedule EXCEPT ![d] =
                    [s \in ShiftSet |-> IF s \in hits THEN Append(schedule[d][s], name[emp])
                                        ELSE schedule[d][s]]]
             /\ assigned_shifts' = [assigned_shifts EXCEPT ![emp][d] =
                                        last_with_capacity(prefs, d)]
             /\ days_assigned' = [days_assigned EXCEPT ![emp] = @ + Cardinality(hits)]
             /\ UNCHANGED call
        ELSE IF other # NoShift
        THEN assign_employee_to_shift(emp, d, other, "prefer")
        ELSE no_assignment

\* the body of the first pass for one employee on one day
prefer_employee(emp, d) ==
    LET shift == IF can_assign(emp, d) THEN preferred_or_other(emp, d) ELSE NoShift
    IN  IF shift # NoShift
        THEN assign_employee_to_shift(emp, d, shift, "prefer")
        ELSE no_assignment

\* one employee of one day of the first pass
prefer ==
    /\ pc = "prefer"
    /\ prefer_employee(emp_order[idx], day)
    /\ IF idx < Len(emp_order)
       THEN /\ idx' = idx + 1
            /\ UNCHANGED <<pc, day>>
       ELSE /\ idx' = 1
            /\ IF day < NumDays - 1
               THEN pc' = "shuffle" /\ day' = day + 1
               ELSE pc' = "ensure" /\ day' = 0
    /\ UNCHANGED <<inputs, emp_order, need, chosen, cidx, shortages,
                   updated_shortages, rec>>

\* variant of eligible_sorted: the list is left in input order
eligible_unsorted(d) == SelectSeq(employees, LAMBDA e : can_assign(e, d))

\* eligible = [e for e in employees if can_assign(e, day)]; eligible.sort(key=days_assigned)
eligible_sorted(d) ==
    SortByKey(SelectSeq(employees, LAMBDA e : can_assign(e, d)), days_assigned)

\* the selection loop of ensure_minimum_staffing: occ is len(schedule[day][shift])
RECURSIVE ensure_chosen(_, _, _, _)
ensure_chosen(eligible, nd, occ, ch) ==
    IF eligible = <<>> \/ Len(ch) >= nd THEN ch
    ELSE IF occ + Len(ch) < max_per_shift
         THEN ensure_chosen(Tail(eligible), nd, occ, Append(ch, Head(eligible)))
         ELSE ensure_chosen(Tail(eligible), nd, occ, ch)

\* the loop of resolve_shortages_via_next_day: it assigns as it selects, so
\* len(schedule[day][shift]) has grown by one at every later test
RECURSIVE resolve_chosen(_, _, _, _)
resolve_chosen(eligible, nd, occ, ch) ==
    IF eligible = <<>> \/ Len(ch) >= nd THEN ch
    ELSE IF occ + Len(ch) < max_per_shift
         THEN resolve_chosen(Tail(eligible), nd, occ + 1, Append(ch, Head(eligible)))
         ELSE resolve_chosen(Tail(eligible), nd, occ, ch)

\* variant of cell_need: a floor of one
cell_need_one(d, shift) == 1 - Len(schedule[d][shift])

\* need = min_required - len(schedule[day][shift])
cell_need(d, shift) == MinRequired - Len(schedule[d][shift])

\* variants of short_remaining and still: the count off by one
short_remaining_off(nd, ch) == nd - Len(ch) - 1

still_off(nd, ch) == nd - Len(ch) - 1

\* short_remaining = need - len(chosen)
short_remaining(nd, ch) == nd - Len(ch)

\* still = need - len(chosen)
still(nd, ch) == nd - Len(ch)

\* what a staffing pass finds when it takes up a cell: the need, the occupancy,
\* the employees free that day and under the cap, everyone's days_assigned and
\* the number of records written so far
taken_up(by, d, shift, nd, out) ==
    [by |-> by, day |-> d, shift |-> shift, need |-> nd,
     occupancy |-> Len(schedule[d][shift]),
     eligible |-> {e \in Range(employees) :
                     assigned_shifts[e][d] = NoShift
                     /\ days_assigned[e] < MaxDaysPerWeek},
     load |-> days_assigned, listed |-> Len(out)]

\* One step of ensure_minimum_staffing: up to the next call of
\* assign_employee_to_shift, or to the end of the cell when none is left.
ensure_minimum_staffing ==
    /\ pc = "ensure"
    /\ LET shift == SHIFTS[idx]
           occ == Len(schedule[day][shift])
           nd == IF chosen = <<>> THEN cell_need(day, shift) ELSE need
           ch == IF chosen # <<>> THEN chosen
                 ELSE IF nd > 0
                      THEN ensure_chosen(eligible_sorted(day), nd, occ, <<>>)
                      ELSE <<>>
       IN  /\ rec' = IF chosen = <<>> THEN taken_up("ensure", day, shift, nd, shortages)
                      ELSE rec
           /\ IF cidx <= Len(ch)
              THEN assign_employee_to_shift(ch[cidx], day, shift, "ensure")
              ELSE no_assignment
           /\ IF cidx < Len(ch)
              THEN /\ chosen' = ch
                   /\ cidx' = cidx + 1
                   /\ need' = nd
                   /\ UNCHANGED <<pc, day, idx, shortages>>
              ELSE /\ chosen' = <<>>
                   /\ cidx' = 1
                   /\ need' = 0
                   /\ shortages' =
                          IF short_remaining(nd, ch) > 0
                          THEN Append(shortages, <<day, shift, short_remaining(nd, ch)>>)
                          ELSE shortages
                   /\ IF idx < Len(SHIFTS)
                      THEN idx' = idx + 1 /\ UNCHANGED <<pc, day>>
                      ELSE /\ idx' = 1
                           /\ IF day < NumDays - 1
                              THEN day' = day + 1 /\ UNCHANGED pc
                              ELSE /\ day' = 0
                                   /\ pc' = IF shortages' # <<>> THEN "resolve"
                                            ELSE "fill"
    /\ UNCHANGED <<inputs, emp_order, updated_shortages>>

\* One step of resolve_shortages_via_next_day: up to the next call of
\* assign_employee_to_shift, or to the end of the record when none is left.
resolve_shortages_via_next_day ==
    /\ pc = "resolve"
    /\ LET d == shortages[idx][1]
           shift == shortages[idx][2]
           nd == shortages[idx][3]
           ch == IF chosen # <<>> THEN chosen
                 ELSE resolve_chosen(eligible_sorted(d), nd,
                                     Len(schedule[d][shift]), <<>>)
       IN  /\ rec' = IF chosen = <<>>
                      THEN taken_up("resolve", d, shift, nd, updated_shortages)
                      ELSE rec
           /\ IF cidx <= Len(ch)
              THEN assign_employee_to_shift(ch[cidx], d, shift, "resolve")
              ELSE no_assignment
           /\ IF cidx < Len(ch)
              THEN /\ chosen' = ch
                   /\ cidx' = cidx + 1
                   /\ UNCHANGED <<pc, idx, updated_shortages>>
              ELSE /\ chosen' = <<>>
                   /\ cidx' = 1
                   /\ updated_shortages' =
                          IF still(nd, ch) > 0
                          THEN Append(updated_shortages, <<d, shift, still(nd, ch)>>)
                          ELSE updated_shortages
                   /\ IF idx < Len(shortages)
                      THEN idx' = idx + 1 /\ UNCHANGED pc
                      ELSE idx' = 1 /\ pc' = "fill"
    /\ UNCHANGED <<inputs, emp_order, day, need, shortages>>

\* variant of preferred_or_any: the ranked list is not consulted
preferred_or_any_unranked(emp, d) == first_with_capacity(SHIFTS, d)

\* the shift fill_remaining_with_available gives an eligible employee
preferred_or_any(emp, d) ==
    LET first == first_with_capacity(preferences[emp][d], d)
    IN  IF first # NoShift THEN first ELSE first_with_capacity(SHIFTS, d)

\* one employee of one day of fill_remaining_with_available
fill_remaining_with_available ==
    /\ pc = "fill"
    /\ LET emp == employees[idx]
           shift == IF can_assign(emp, day) THEN preferred_or_any(emp, day)
                    ELSE NoShift
       IN  IF shift # NoShift
           THEN assign_employee_to_shift(emp, day, shift, "fill")
           ELSE no_assignment
    /\ IF idx < Len(employees)
       THEN idx' = idx + 1 /\ UNCHANGED <<pc, day>>
       ELSE /\ idx' = 1
            /\ IF day < NumDays - 1
               THEN day' = day + 1 /\ UNCHANGED pc
               ELSE day' = 0 /\ pc' = "done"
    /\ UNCHANGED <<inputs, emp_order, need, chosen, cidx, shortages,
                   updated_shortages, rec>>

Next ==
    \/ shuffle_day
    \/ prefer
    \/ ensure_minimum_staffing
    \/ resolve_shortages_via_next_day
    \/ fill_remaining_with_available

Spec == Init /\ [][Next]_vars

\* ------------------------------------------------------------ scenarios
\* two employees, max_per_shift 5: A ranks morning every day, B has no preference
InitTwo ==
    /\ name = DistinctNames(2)
    /\ preferences = <<[d \in Days |-> <<"morning">>], [d \in Days |-> <<>>]>>
    /\ max_per_shift = 5
    /\ Start(2)

SpecTwo == InitTwo /\ [][Next]_vars

\* ranked lists headed by morning
MorningFirst == {l \in PrefLists : l # <<>> /\ l[1] = "morning"}

\* three employees, max_per_shift 1, all of them ranking morning first on day 0;
\* on the other days employee i ranks only SHIFTS[i]
InitThree ==
    /\ name = DistinctNames(3)
    /\ \E first \in [1 .. 3 -> MorningFirst] :
          preferences = [e \in 1 .. 3 |->
                            [d \in Days |-> IF d = 0 THEN first[e] ELSE <<SHIFTS[e]>>]]
    /\ max_per_shift = 1
    /\ Start(3)

SpecThree == InitThree /\ [][Next]_vars

\* ------------------------------------------------------------ passes on their own
\* the days an employee has worked before the pass is called
WorkedDays == {{}, 0 .. 2, 0 .. 4, 4 .. 6}

\* assigned_shifts of one employee: one shift on each worked day
WorkedWeeks ==
    {[d \in Days |-> IF d \in W THEN s ELSE NoShift] : W \in WorkedDays, s \in ShiftSet}

\* a state between two passes: every employee has worked some days, the cells
\* hold the names of those who work them, in list order, and no cell holds more
\* than max_per_shift names
Between(n) ==
    /\ employees = Employees(n)
    /\ name = DistinctNames(n)
    /\ max_per_shift \in 0 .. MaxCap
    /\ assigned_shifts \in [1 .. n -> WorkedWeeks]
    /\ days_assigned =
          [e \in 1 .. n |-> Cardinality({d \in Days : assigned_shifts[e][d] # NoShift})]
    /\ schedule =
          [d \in Days |-> [s \in ShiftSet |->
              LET at == SelectSeq(employees, LAMBDA e : assigned_shifts[e][d] = s)
              IN  [i \in 1 .. Len(at) |-> name[at[i]]]]]
    /\ \A d \in Days, s \in ShiftSet : Len(schedule[d][s]) <= max_per_shift
    /\ emp_order = employees
    /\ day = 0
    /\ idx = 1
    /\ need = 0
    /\ chosen = <<>>
    /\ cidx = 1
    /\ updated_shortages = <<>>
    /\ call = NoCall
    /\ rec = NoRec

\* shortage records handed to the resolver: a day, a shift, a missing count
RecordDays == {0, 5}

ShortageRecords ==
    {<<d, s, k>> : d \in RecordDays, s \in ShiftSet, k \in 1 .. MaxNeed}

ShortageLists == SeqUpTo(ShortageRecords, MaxRecords) \ {<<>>}

\* ensure_minimum_staffing called between two passes (the resolver follows when
\* it returns shortages), or the resolver called with a shortage list
InitStaffing ==
    /\ Between(NumStaff)
    /\ preferences = [e \in 1 .. NumStaff |-> [d \in Days |-> <<>>]]
    /\ \/ pc = "ensure" /\ shortages = <<>>
       \/ pc = "resolve" /\ shortages \in ShortageLists

NextStaffing ==
    \/ ensure_minimum_staffing
    \/ resolve_shortages_via_next_day

SpecStaffing == InitStaffing /\ [][NextStaffing]_vars

\* fill_remaining_with_available called between two passes
InitFill ==
    /\ Between(NumEmp)
    /\ preferences \in [1 .. NumEmp -> PrefWeeks]
    /\ pc = "fill"
    /\ shortages = <<>>

SpecFill == InitFill /\ [][fill_remaining_with_available]_vars

\* ------------------------------------------------------------ properties
Emps == DOMAIN days_assigned

Cell(d, s) == schedule[d][s]

IsPrefix(a, b) == Len(a) <= Len(b) /\ SubSeq(b, 1, Len(a)) = a

Occurrences(n, seq) == Cardinality({i \in 1 .. Len(seq) : seq[i] = n})

Min(S) == CHOOSE x \in S : \A y \in S : x <= y

RECURSIVE SumSeq(_)
SumSeq(seq) == IF seq = <<>> THEN 0 ELSE Head(seq) + SumSeq(Tail(seq))

\* the 21 cells, day-major
CellList ==
    [i \in 1 .. NumDays * Len(SHIFTS) |->
        <<(i - 1) \div Len(SHIFTS), SHIFTS[((i - 1) % Len(SHIFTS)) + 1]>>]

\* the first pass is over and ensure_minimum_staffing has not acted yet
EndOfPreferencePass == pc = "ensure" /\ day = 0 /\ idx = 1 /\ chosen = <<>>

\* the resolver has returned (or was not called) and the sweep has not acted yet
AfterResolver == pc = "fill" /\ day = 0 /\ idx = 1

\* C1: in every reachable state of a run every employee has days_assigned <= 5.
C1_CapInvariant == \A e \in Emps : days_assigned[e] <= MaxDaysPerWeek

\* an employee at the cap was refused a later day
C1_Witness ==
    /\ pc = "done"
    /\ \E e \in Emps : days_assigned[e] = MaxDaysPerWeek
                       /\ assigned_shifts[e][NumDays - 1] = NoShift

\* C2: with max_per_shift >= 1, in every reachable state of a run every cell
\* holds at most max_per_shift names.
C2_CapacityInvariant ==
    max_per_shift >= 1 =>
        \A d \in Days, s \in ShiftSet : Len(Cell(d, s)) <= max_per_shift

\* an employee was assigned while its first-ranked shift was full
C2_Witness ==
    /\ max_per_shift >= 1
    /\ call.by = "prefer"
    /\ preferences[call.emp][call.day] # <<>>
    /\ call.occupancy[preferences[call.emp][call.day][1]] = max_per_shift
    /\ Len(Cell(call.day, call.shift)) = call.occupancy[call.shift] + 1

\* C3: with pairwise distinct names, in every reachable state of a run each name
\* occurs at most once in all three cells of a day taken together, so an employee
\* has at most one shift a day.
C3_OneShiftPerDay ==
    (\A e, f \in Emps : e # f => name[e] # name[f]) =>
        \A d \in Days, e \in Emps :
            SumSeq([i \in 1 .. Len(SHIFTS) |-> Occurrences(name[e], Cell(d, SHIFTS[i]))])
                <= 1

\* distinct names, two employees in cells of the same day, all passes over
C3_Witness ==
    /\ pc = "done"
    /\ \A e, f \in Emps : e # f => name[e] # name[f]
    /\ \E e, f \in Emps : /\ e # f
                          /\ assigned_shifts[e][0] # NoShift
                          /\ assigned_shifts[f][0] # NoShift
                          /\ assigned_shifts[e][0] # assigned_shifts[f][0]
                          /\ Len(preferences[e][0]) = 2

\* C4: every step only adds: days_assigned never decreases, a recorded shift is
\* never removed or changed, and every cell of the next state extends the cell
\* of the previous state.
C4_Monotonic ==
    [][/\ \A e \in Emps :
            /\ days_assigned'[e] >= days_assigned[e]
            /\ \A d \in Days : assigned_shifts[e][d] # NoShift =>
                                  assigned_shifts'[e][d] = assigned_shifts[e][d]
       /\ \A d \in Days, s \in ShiftSet : IsPrefix(Cell(d, s), schedule'[d][s])]_vars

\* a name was appended to a cell that already held one
C4_Witness ==
    /\ call.by = "prefer"
    /\ call.occupancy[call.shift] >= 1
    /\ Len(Cell(call.day, call.shift)) = call.occupancy[call.shift] + 1

\* the ranked list the latest call was made for, and the ranks of its shifts
\* that had remaining capacity when the call was made
CallList == preferences[call.emp][call.day]

CallOpenRanks ==
    {i \in 1 .. Len(CallList) : call.occupancy[CallList[i]] < max_per_shift}

\* C5 as stated: every assignment of the first pass to an employee with a
\* non-empty ranked list goes to the highest-ranked shift of the list that had
\* remaining capacity.
C5_PreferenceHonoring_AsStated ==
    (call.by = "prefer" /\ CallList # <<>>) =>
        /\ CallOpenRanks # {}
        /\ call.shift = CallList[Min(CallOpenRanks)]

\* C5 amended: every assignment of the first pass to an employee whose ranked
\* list has at least one shift with remaining capacity goes to the
\* highest-ranked such shift.
C5_PreferenceHonoring ==
    (call.by = "prefer" /\ CallOpenRanks # {}) =>
        call.shift = CallList[Min(CallOpenRanks)]

\* the first-ranked shift was full and the second-ranked one was taken
C5_Witness ==
    /\ call.by = "prefer"
    /\ Len(CallList) = 2
    /\ CallOpenRanks = {2}
    /\ call.shift = CallList[2]
    /\ assigned_shifts[call.emp][call.day] = CallList[2]

\* C6: right after the resolver (its result empty when it is not called) the
\* staff missing below the floor of 2, summed over the 21 cells, equals the sum
\* of the missing counts of the resolver's result.
C6_ShortageAccounting ==
    AfterResolver =>
        SumSeq([i \in DOMAIN CellList |->
                   IF MinRequired - Len(Cell(CellList[i][1], CellList[i][2])) > 0
                   THEN MinRequired - Len(Cell(CellList[i][1], CellList[i][2]))
                   ELSE 0])
          = SumSeq([i \in DOMAIN updated_shortages |-> updated_shortages[i][3]])

\* the resolver returned records missing 1 and records missing 2
C6_Witness ==
    /\ AfterResolver
    /\ \E i, j \in DOMAIN updated_shortages :
          updated_shortages[i][3] = 1 /\ updated_shortages[j][3] = 2
    /\ \E d \in Days, s \in ShiftSet : Len(Cell(d, s)) = 1

\* C7: every call of assign_employee_to_shift is made for an employee that has
\* no shift on that day and fewer than 5 days, and for a cell with fewer than
\* max_per_shift names.
C7_AssignPreconditions ==
    call.by # "none" =>
        /\ call.assigned_before = NoShift
        /\ call.days_before < MaxDaysPerWeek
        /\ call.occupancy[call.shift] < max_per_shift

\* a call for the employee's fifth day, made while another cell of the day was full
C7_Witness ==
    /\ call.by = "prefer"
    /\ call.days_before = MaxDaysPerWeek - 1
    /\ max_per_shift >= 1
    /\ \E s \in ShiftSet : call.occupancy[s] = max_per_shift
    /\ days_assigned[call.emp] = MaxDaysPerWeek

\* C8: when the run is over, an employee without a shift on a day has 5 days
\* assigned, or all three cells of that day hold exactly max_per_shift names.
C8_EndMaximality ==
    pc = "done" =>
        \A e \in Emps, d \in Days :
            assigned_shifts[e][d] = NoShift =>
                \/ days_assigned[e] = MaxDaysPerWeek
                \/ \A s \in ShiftSet : Len(Cell(d, s)) = max_per_shift

\* an employee without preferences ends with 5 days and is free on a day with
\* room, and an employee with fewer than 5 days is free on full days
C8_Witness ==
    /\ pc = "done"
    /\ \/ \E e \in Emps, d \in Days :
             /\ \A dd \in Days : preferences[e][dd] = <<>>
             /\ days_assigned[e] = MaxDaysPerWeek
             /\ assigned_shifts[e][d] = NoShift
             /\ \E s \in ShiftSet : Len(Cell(d, s)) < max_per_shift
       \/ \E e \in Emps : days_assigned[e] < MaxDaysPerWeek

\* C9: two employees, max_per_shift 5, A ranking morning every day and B without
\* preferences: at the end both are in the morning cell on days 0..4 and free on
\* days 5 and 6, with 5 days each, and the list of ensure_minimum_staffing has a
\* record for every cell with fewer than 2 names, (0, afternoon, 2) among them.
C9_TwoWorkers ==
    pc = "done" =>
        /\ \A d \in 0 .. 4, e \in Emps :
              /\ InSeq(name[e], Cell(d, "morning"))
              /\ assigned_shifts[e][d] = "morning"
        /\ \A d \in 5 .. 6, e \in Emps :
              /\ assigned_shifts[e][d] = NoShift
              /\ \A s \in ShiftSet : ~InSeq(name[e], Cell(d, s))
        /\ \A e \in Emps : days_assigned[e] = MaxDaysPerWeek
        /\ \A d \in Days, s \in ShiftSet :
              Len(Cell(d, s)) < MinRequired =>
                  \E i \in DOMAIN shortages :
                      shortages[i][1] = d /\ shortages[i][2] = s
        /\ InSeq(<<0, "afternoon", 2>>, shortages)

\* the run is over and the shuffle put B before A on day 0 and A before B on day 1
C9_Witness ==
    /\ pc = "done"
    /\ Cell(0, "morning") = <<name[2], name[1]>>
    /\ Cell(1, "morning") = <<name[1], name[2]>>
    /\ Len(shortages) = 16

\* C10 as stated: three employees ranking morning first on day 0, max_per_shift 1:
\* at the end of the first pass one of them is in the morning cell of day 0 and
\* the other two have no shift on day 0; the morning cell of day 0 never gets a
\* second name.
C10_ThreeWorkers_AsStated ==
    /\ Len(Cell(0, "morning")) <= 1
    /\ EndOfPreferencePass =>
          /\ Len(Cell(0, "morning")) = 1
          /\ Cardinality({e \in Emps : assigned_shifts[e][0] = NoShift}) = 2

\* C10 amended: at the end of the first pass one of them is in the morning cell
\* of day 0 and the other two were placed by the first pass itself, one in the
\* afternoon cell and one in the evening cell of day 0; the morning cell of
\* day 0 never gets a second name, and none from ensure_minimum_staffing.
C10_ThreeWorkers ==
    /\ Len(Cell(0, "morning")) <= 1
    /\ ~(call.by = "ensure" /\ call.day = 0 /\ call.shift = "morning")
    /\ EndOfPreferencePass =>
          /\ \A s \in ShiftSet : Len(Cell(0, s)) = 1
          /\ \A e \in Emps : /\ assigned_shifts[e][0] # NoShift
                             /\ Cell(0, assigned_shifts[e][0]) = <<name[e]>>

\* the first pass is over; the last employee of the list got the morning of day 0
\* and the first one, ranking morning before afternoon, got the evening
C10_Witness ==
    /\ EndOfPreferencePass
    /\ assigned_shifts[3][0] = "morning"
    /\ preferences[1][0] = <<"morning", "afternoon">>
    /\ assigned_shifts[1][0] = "evening"

\* ------------------------------------------------------------ staffing passes
\* the staffing pass `by` has finished the cell or record it took up last
Finished(by) ==
    /\ rec.by = by
    /\ chosen = <<>>
    /\ pc \in {"ensure", "resolve"} \/ AfterResolver

\* the names the pass appended to that cell, and the employees bearing them
PlacedNames ==
    SubSeq(Cell(rec.day, rec.shift), rec.occupancy + 1, Len(Cell(rec.day, rec.shift)))

Placed == {e \in Emps : InSeq(name[e], PlacedNames)}

\* min(need, number eligible on the day, max_per_shift - occupancy before)
Placeable ==
    Min({IF rec.need > 0 THEN rec.need ELSE 0,
         Cardinality(rec.eligible),
         max_per_shift - rec.occupancy})

\* the names were appended in ascending order of days_assigned, and nobody
\* eligible who was left out had fewer days than somebody placed
LeastLoadedPlaced ==
    /\ Placed \subseteq rec.eligible
    /\ \A i, j \in 1 .. Len(PlacedNames) :
          i < j => \A e, f \in Emps :
                      name[e] = PlacedNames[i] /\ name[f] = PlacedNames[j]
                          => rec.load[e] <= rec.load[f]
    /\ \A e \in Placed, f \in rec.eligible \ Placed : rec.load[e] <= rec.load[f]

\* the pass wrote need - placeable as the record of that cell, or no record
\* when that is zero
ResidualWritten(out) ==
    IF rec.need - Placeable > 0
    THEN /\ Len(out) = rec.listed + 1
         /\ out[Len(out)] = <<rec.day, rec.shift, rec.need - Placeable>>
    ELSE Len(out) = rec.listed

\* C11: for each record (day, shift, need) the resolver places exactly
\* min(need, number eligible on the day, max_per_shift - occupancy before)
\* employees, eligible ones in ascending days_assigned order, and reports need
\* minus that number as the residual, omitted when zero.
C11_ResolverPlacement ==
    Finished("resolve") =>
        /\ Len(PlacedNames) = Placeable
        /\ LeastLoadedPlaced
        /\ ResidualWritten(updated_shortages)

\* position of a cell in the day-major order
CellIndex(d, s) == CHOOSE i \in DOMAIN CellList : CellList[i] = <<d, s>>

EnsureReturned == rec.by = "ensure" /\ pc \in {"resolve", "fill"}

\* the cells below the floor, in day-major order
UnderFloor == SelectSeq(CellList, LAMBDA c : Len(Cell(c[1], c[2])) < MinRequired)

\* C13: when ensure_minimum_staffing returns, its shortage list holds one
\* record (day, shift, missing) for each cell then below min_required and none
\* for another cell, with missing = min_required - occupancy >= 1, in day-major,
\* morning/afternoon/evening order.
C13_ShortageExactness ==
    EnsureReturned =>
        /\ shortages =
              [i \in 1 .. Len(UnderFloor) |->
                  <<UnderFloor[i][1], UnderFloor[i][2],
                    MinRequired - Len(Cell(UnderFloor[i][1], UnderFloor[i][2]))>>]
        /\ \A i \in DOMAIN shortages : shortages[i][3] >= 1

\* the list returned has a record missing one, a record missing two, and skips
\* a cell that the backfill brought to the floor
C13_Witness ==
    /\ EnsureReturned
    /\ \E i, j \in DOMAIN shortages : shortages[i][3] = 1 /\ shortages[j][3] = 2
    /\ Len(UnderFloor) < Len(CellList)
    /\ \E e \in Emps : call.by = "ensure" /\ days_assigned[e] = MaxDaysPerWeek

(***************************************************************************)
(* The first pass and the sweep, one employee at a time                    *)
(***************************************************************************)

\* the employee has no shift on the day and fewer than five days
Eligible(e, d) == assigned_shifts[e][d] = NoShift /\ days_assigned[e] < MaxDaysPerWeek

\* the shifts of SHIFTS with room on the day, in the order of SHIFTS
OpenShifts(d) == SelectSeq(SHIFTS, LAMBDA s : Len(Cell(d, s)) < max_per_shift)

\* the step records shift s for employee e on day d and nothing else
Takes(e, d, s) ==
    /\ schedule' = [schedule EXCEPT ![d][s] = Append(@, name[e])]
    /\ assigned_shifts' = [assigned_shifts EXCEPT ![e][d] = s]
    /\ days_assigned' = [days_assigned EXCEPT ![e] = @ + 1]

Untouched == UNCHANGED <<schedule, assigned_shifts, days_assigned>>

\* C14: in the first pass an eligible employee none of whose ranked shifts has
\* room (or whose list is empty) is assigned the first of morning, afternoon,
\* evening that is not in its list and has occupancy < max_per_shift; it stays
\* unassigned for the day only if all three cells of the day are full; an
\* ineligible employee is skipped with no state change.
C14_Fallback ==
    [][pc = "prefer" =>
        LET e == emp_order[idx]
            prefs == preferences[e][day]
            others == SelectSeq(OpenShifts(day), LAMBDA s : ~InSeq(s, prefs))
        IN  /\ ~Eligible(e, day) => Untouched
            /\ (Eligible(e, day)
                  /\ \A i \in DOMAIN prefs : Len(Cell(day, prefs[i])) >= max_per_shift)
               => IF others # <<>> THEN Takes(e, day, Head(others)) ELSE Untouched
            /\ (Eligible(e, day) /\ assigned_shifts'[e][day] = NoShift)
               => OpenShifts(day) = <<>>]_vars

\* morning, the only ranked shift, was full and afternoon was taken
C14_Witness ==
    /\ call.by = "prefer"
    /\ CallList = <<"morning">>
    /\ call.occupancy["morning"] >= max_per_shift
    /\ call.shift = "afternoon"
    /\ Cell(call.day, "afternoon")[Len(Cell(call.day, "afternoon"))] = name[call.emp]

\* C15: fill_remaining_with_available, called on a state that meets the cap,
\* capacity and one-shift-per-day invariants, takes the days 0..6 and within a
\* day the employees in input order; an employee eligible at its turn is
\* assigned the first shift of its ranked list with occupancy < max_per_shift,
\* otherwise the first of morning, afternoon, evening with occupancy <
\* max_per_shift, otherwise nothing; an ineligible employee is unchanged.
C15_SweepStep ==
    [][pc = "fill" =>
        LET e == employees[idx]
            ranked == SelectSeq(preferences[e][day],
                                LAMBDA s : Len(Cell(day, s)) < max_per_shift)
        IN  /\ IF ~Eligible(e, day) THEN Untouched
               ELSE IF ranked # <<>> THEN Takes(e, day, Head(ranked))
               ELSE IF OpenShifts(day) # <<>> THEN Takes(e, day, Head(OpenShifts(day)))
               ELSE Untouched
            /\ IF idx < Len(employees) THEN day' = day /\ idx' = idx + 1
               ELSE /\ idx' = 1
                    /\ pc' = "fill" => day' = day + 1
                    /\ pc' # "fill" => day = NumDays - 1]_vars

\* the sweep gave an employee its first-ranked shift although morning, earlier
\* in the order of SHIFTS, had room; another employee was already in the cell
C15_Witness ==
    /\ call.by = "fill"
    /\ CallList # <<>>
    /\ call.shift = CallList[1]
    /\ call.shift # "morning"
    /\ call.occupancy["morning"] < max_per_shift
    /\ call.occupancy[call.shift] >= 1

(***************************************************************************)
(* The schedule and the employees' records                                 *)
(***************************************************************************)

\* C17: with pairwise distinct names, in every reachable state of a run, for
\* every employee e, day d and shift s, e.name is in schedule[d][s] exactly when
\* e.assigned_shifts[d] = s, and e.days_assigned is the number of entries of
\* e.assigned_shifts, which is the number of cells that contain e.name.
C17_Mirror ==
    (\A e, f \in Emps : e # f => name[e] # name[f]) =>
        \A e \in Emps :
            /\ \A d \in Days, s \in ShiftSet :
                  InSeq(name[e], Cell(d, s)) <=> assigned_shifts[e][d] = s
            /\ days_assigned[e] =
                  Cardinality({d \in Days : assigned_shifts[e][d] # NoShift})
            /\ days_assigned[e] =
                  Cardinality({c \in Range(CellList) : InSeq(name[e], Cell(c[1], c[2]))})

\* distinct names, all passes over, one employee in five cells and a cell that
\* holds both employees
C17_Witness ==
    /\ pc = "done"
    /\ \A e, f \in Emps : e # f => name[e] # name[f]
    /\ \E e \in Emps :
          Cardinality({c \in Range(CellList) : InSeq(name[e], Cell(c[1], c[2]))})
              = MaxDaysPerWeek
    /\ \E d \in Days, s \in ShiftSet : Len(Cell(d, s)) = NumEmp

(***************************************************************************)
(* The later passes within a full run                                      *)
(***************************************************************************)

LaterPasses == {"ensure", "resolve", "fill"}

\* C18: in a full run the three passes after the first make no assignment: the
\* schedule and every employee's assigned_shifts and days_assigned stay as the
\* first pass left them, the list resolve_shortages_via_next_day returns is the
\* list it was given, and after the first pass an employee still eligible on a
\* day finds all three cells of that day full.  (Stated for max_per_shift = 0
\* as well, where every cell is full from the start.)
C18_LaterPassesIdle ==
    [][(pc \in LaterPasses) =>
          (/\ Untouched
           /\ \A e \in Emps, d \in Days : Eligible(e, d) => OpenShifts(d) = <<>>
           /\ (pc = "resolve" /\ pc' # "resolve") => updated_shortages' = shortages)]_vars

\* a full run with room in the cells has ended: the backfill reported
\* shortages, the resolver returned them, and the last assignment was made by
\* the first pass
C18_Witness ==
    /\ pc = "done"
    /\ max_per_shift >= 1
    /\ shortages # <<>>
    /\ updated_shortages = shortages
    /\ call.by = "prefer"
    /\ rec.by = "resolve"

(***************************************************************************)
(* What a staffing pass may change                                         *)
(***************************************************************************)

\* the cell the backfill or the resolver is working on
WorkDay == IF pc = "ensure" THEN day ELSE shortages[idx][1]

WorkShift == IF pc = "ensure" THEN SHIFTS[idx] ELSE shortages[idx][2]

====
